---- MODULE Spec2Model ----
(***************************************************************************)
(* A model of package model (types/model/name.go): model names of the form *)
(* [host/][namespace/]<model>[:tag][@digest] and content digests.          *)
(*                                                                         *)
(* A Go string is modelled as a sequence of one-character strings, so that *)
(* cutting, validation, formatting and case folding are computed byte by   *)
(* byte, as the code does.  "" is <<>>.                                     *)
(***************************************************************************)
EXTENDS Integers, Sequences, FiniteSets, TLC

VARIABLES input, input2, n, o, dg, ret, op

vars == <<input, input2, n, o, dg, ret, op>>

----------------------------------------------------------------------------
(* Characters *)

UpperSeq == <<"A","B","C","D","E","F","G","H","I","J","K","L","M",
              "N","O","P","Q","R","S","T","U","V","W","X","Y","Z">>

LowerSeq == <<"a","b","c","d","e","f","g","h","i","j","k","l","m",
              "n","o","p","q","r","s","t","u","v","w","x","y","z">>

DigitSeq == <<"0","1","2","3","4","5","6","7","8","9">>

Range(f) == {f[i] : i \in DOMAIN f}

Upper == Range(UpperSeq)

Lower == Range(LowerSeq)

Digits == Range(DigitSeq)

\* const MissingPart = "!MISSING!"
MissingPart == <<"!","M","I","S","S","I","N","G","!">>

\* partKind
kindHost == 0
kindNamespace == 1
kindModel == 2
kindTag == 3
kindDigest == 4

\* The zero value of Name: every field the empty string.
ZeroName == [host |-> <<>>, namespace |-> <<>>, model |-> <<>>,
             tag |-> <<>>, rawDigest |-> <<>>]

\* DefaultName()
DefaultName == [host |-> <<"r","e","g","i","s","t","r","y",".",
                           "o","l","l","a","m","a",".","a","i">>,
                namespace |-> <<"l","i","b","r","a","r","y">>,
                model |-> <<>>,
                tag |-> <<"l","a","t","e","s","t">>,
                rawDigest |-> <<>>]

----------------------------------------------------------------------------
(* Cutting *)

\* strings.LastIndex(s, sep) for a one-byte sep, 1-based; 0 when sep is absent
\* (Go: 0-based, -1 when absent).
LastIndex(s, sep) ==
  LET I == {i \in 1..Len(s) : s[i] = sep}
  IN  IF I = {} THEN 0 ELSE CHOOSE i \in I : \A j \in I : j <= i

\* cmp.Or(a, b) on strings: the first argument that is not "".
cmpOr(a, b) == IF a # <<>> THEN a ELSE b

cutLast(s, sep) ==
  LET i == LastIndex(s, sep)
  IN  IF i > 0
      THEN [before |-> SubSeq(s, 1, i - 1),
            after  |-> SubSeq(s, i + 1, Len(s)),
            ok     |-> TRUE]
      ELSE [before |-> s, after |-> <<>>, ok |-> FALSE]

\* cutPromised without the promise: an empty side stays empty.
cutPromisedNoSentinel(s, sep) == cutLast(s, sep)

cutPromised(s, sep) ==
  LET c == cutLast(s, sep)
  IN  IF ~c.ok
      THEN [before |-> c.before, after |-> c.after, ok |-> FALSE]
      ELSE [before |-> cmpOr(c.before, MissingPart),
            after  |-> cmpOr(c.after, MissingPart),
            ok     |-> TRUE]

\* ParseNameNoDefaults without the rule for a promised digest: nothing after
\* "@" leaves rawDigest empty.
ParseNameNoDigestPromise(s) ==
  LET c1  == cutLast(s, "@")
      c2  == cutPromised(c1.before, ":")
      c3  == cutPromised(c2.before, "/")
      c4  == cutPromised(c3.before, "/")
  IN  IF ~c3.ok
      THEN [host |-> <<>>, namespace |-> <<>>, model |-> c2.before,
            tag |-> c2.after, rawDigest |-> c1.after]
      ELSE IF ~c4.ok
      THEN [host |-> <<>>, namespace |-> c3.before, model |-> c3.after,
            tag |-> c2.after, rawDigest |-> c1.after]
      ELSE [host |-> c4.before, namespace |-> c4.after, model |-> c3.after,
            tag |-> c2.after, rawDigest |-> c1.after]

ParseNameNoDefaults(s) ==
  LET c1  == cutLast(s, "@")
      dig == IF c1.ok /\ c1.after = <<>> THEN MissingPart ELSE c1.after
      c2  == cutPromised(c1.before, ":")
      c3  == cutPromised(c2.before, "/")
      c4  == cutPromised(c3.before, "/")
  IN  IF ~c3.ok
      THEN [host |-> <<>>, namespace |-> <<>>, model |-> c2.before,
            tag |-> c2.after, rawDigest |-> dig]
      ELSE IF ~c4.ok
      THEN [host |-> <<>>, namespace |-> c3.before, model |-> c3.after,
            tag |-> c2.after, rawDigest |-> dig]
      ELSE [host |-> c4.before, namespace |-> c4.after, model |-> c3.after,
            tag |-> c2.after, rawDigest |-> dig]

----------------------------------------------------------------------------
(* Validation *)

isAlphanumeric(c) ==
  c \in Upper \/ c \in Lower \/ c \in Digits

isValidLen(kind, s) ==
  IF kind = kindHost THEN Len(s) >= 1 /\ Len(s) <= 350
  ELSE IF kind = kindTag THEN Len(s) >= 1 /\ Len(s) <= 80
  ELSE Len(s) >= 2 /\ Len(s) <= 80

\* isValidPart without the rule for the first byte.
isValidPartAnyFirst(kind, s) ==
  /\ isValidLen(kind, s)
  /\ \A i \in 1..Len(s) :
       IF s[i] \in {"_", "-"} THEN TRUE
       ELSE IF s[i] = "." THEN kind # kindNamespace
       ELSE IF s[i] = ":" THEN kind = kindHost
       ELSE isAlphanumeric(s[i])

isValidPart(kind, s) ==
  /\ isValidLen(kind, s)
  /\ \A i \in 1..Len(s) :
       IF i = 1 THEN isAlphanumeric(s[i])
       ELSE IF s[i] \in {"_", "-"} THEN TRUE
       ELSE IF s[i] = "." THEN kind # kindNamespace
       ELSE IF s[i] = ":" THEN kind = kindHost
       ELSE isAlphanumeric(s[i])

IsValidShort(namespace, model) ==
  isValidPart(kindNamespace, namespace) /\ isValidPart(kindModel, model)

\* The parts of a Name in the order of partKind.
Parts(nm) == <<nm.host, nm.namespace, nm.model, nm.tag, nm.rawDigest>>

\* Name.IsValid
IsValid(nm) ==
  IF nm.model = <<>> /\ nm.rawDigest = <<>> THEN FALSE
  ELSE \A i \in 1..5 :
         ~(Parts(nm)[i] # <<>> /\ ~isValidPart(i - 1, Parts(nm)[i]))

\* Name.String
String(nm) ==
  IF ~IsValid(nm) THEN <<>>
  ELSE (IF nm.host # <<>> THEN nm.host \o <<"/">> ELSE <<>>)
       \o (IF nm.namespace # <<>> THEN nm.namespace \o <<"/">> ELSE <<>>)
       \o nm.model
       \o (IF nm.tag # <<>> THEN <<":">> \o nm.tag ELSE <<>>)
       \o (IF nm.rawDigest # <<>> THEN <<"@">> \o nm.rawDigest ELSE <<>>)

\* Merge that fills an empty model too.
MergeModelToo(nm, other) ==
  [host      |-> cmpOr(nm.host, other.host),
   namespace |-> cmpOr(nm.namespace, other.namespace),
   model     |-> cmpOr(nm.model, other.model),
   tag       |-> cmpOr(nm.tag, other.tag),
   rawDigest |-> nm.rawDigest]

\* Merge that leaves an empty namespace empty.
MergeNoNamespace(nm, other) ==
  [host      |-> cmpOr(nm.host, other.host),
   namespace |-> nm.namespace,
   model     |-> nm.model,
   tag       |-> cmpOr(nm.tag, other.tag),
   rawDigest |-> nm.rawDigest]

\* Name.Merge
Merge(nm, other) ==
  [host      |-> cmpOr(nm.host, other.host),
   namespace |-> cmpOr(nm.namespace, other.namespace),
   model     |-> nm.model,
   tag       |-> cmpOr(nm.tag, other.tag),
   rawDigest |-> nm.rawDigest]

ParseName(s) == Merge(ParseNameNoDefaults(s), DefaultName)

----------------------------------------------------------------------------
(* Hashing and equality *)

\* The byte writeLower hands to WriteByte for the byte c.
lowerByte(c) ==
  IF c \in Upper
  THEN LowerSeq[CHOOSE i \in 1..26 : UpperSeq[i] = c]
  ELSE c

\* writeLower(w, s): the bytes written to w, in order.
writeLower(s) == [i \in 1..Len(s) |-> lowerByte(s[i])]

\* Name.MapHash.  maphash with the process-wide seed is taken as injective on
\* the byte stream written to it, so the hash is modelled by that stream.
MapHash(nm) ==
  writeLower(nm.host) \o writeLower(nm.namespace) \o writeLower(nm.model)
    \o writeLower(nm.tag) \o writeLower(nm.rawDigest)

\* Name.Equal
Equal(nm, other) == MapHash(nm) = MapHash(other)

----------------------------------------------------------------------------
(* Digests *)

\* DigestType: 0 is the zero value (unrecognized), DigestTypeSHA256 = iota + 1.
DigestTypeSHA256 == 1

\* len(Digest.Hash)
HashLen == 32

ZeroHash == [i \in 1..HashLen |-> 0]

\* Digest{}
ZeroDigest == [Type |-> 0, Hash |-> ZeroHash]

\* What a call of ParseDigest ends with: a returned Digest ("ok"), or the
\* run-time panic of an index out of range ("panic"), which returns nothing.
ZeroDigestResult == [status |-> "ok", digest |-> ZeroDigest]

Sha256Str == <<"s","h","a","2","5","6">>

UnknownStr == <<"u","n","k","n","o","w","n">>

\* The digits of hex.EncodeToString.
HexSeq == <<"0","1","2","3","4","5","6","7","8","9","a","b","c","d","e","f">>

UpperHexSeq == <<"A","B","C","D","E","F">>

\* DigestType.String
DigestTypeString(typ) ==
  IF typ = DigestTypeSHA256 THEN Sha256Str ELSE UnknownStr

\* Digest.IsValid
DigestIsValid(d) ==
  IF d.Type # DigestTypeSHA256 THEN FALSE ELSE d.Hash # ZeroHash

\* hex.EncodeToString(h): two lower-case digits a byte.
hexEncodeToString(h) ==
  [i \in 1..(2 * Len(h)) |->
     IF i % 2 = 1 THEN HexSeq[(h[(i + 1) \div 2] \div 16) + 1]
     ELSE HexSeq[(h[i \div 2] % 16) + 1]]

\* Digest.String
DigestString(d) ==
  DigestTypeString(d.Type) \o <<"-">> \o hexEncodeToString(d.Hash)

\* The value of a hex digit of either case; 255 for any other byte.
fromHexChar(c) ==
  IF c \in Range(HexSeq) THEN (CHOOSE i \in 1..16 : HexSeq[i] = c) - 1
  ELSE IF c \in Range(UpperHexSeq)
  THEN (CHOOSE i \in 1..6 : UpperHexSeq[i] = c) + 9
  ELSE 255

\* hex.Decode(dst, src) with len(dst) = dstLen: pair by pair, an invalid digit
\* ends the call with an error, and a valid pair is written to dst[i], which
\* panics once i reaches len(dst); then an odd length is an error.
hexDecode(dstLen, src) ==
  LET npairs == Len(src) \div 2
      Bad(k) == \/ fromHexChar(src[2 * k - 1]) > 15
                \/ fromHexChar(src[2 * k]) > 15
      Byte(k) == 16 * fromHexChar(src[2 * k - 1]) + fromHexChar(src[2 * k])
      Stops == {k \in 1..npairs : Bad(k) \/ k > dstLen}
      stop == CHOOSE k \in Stops : \A j \in Stops : k <= j
      Dst(cnt) == [i \in 1..dstLen |-> IF i <= cnt THEN Byte(i) ELSE 0]
  IN  IF Stops # {}
      THEN IF Bad(stop)
           THEN [n |-> stop - 1, err |-> TRUE, panic |-> FALSE,
                 dst |-> Dst(stop - 1)]
           ELSE [n |-> stop - 1, err |-> FALSE, panic |-> TRUE,
                 dst |-> Dst(stop - 1)]
      ELSE [n |-> npairs, err |-> Len(src) % 2 = 1, panic |-> FALSE,
            dst |-> Dst(npairs)]

\* ParseDigest without the check of the decoded length.
ParseDigestAnyLength(s) ==
  LET c1 == cutLast(s, ":")
      c  == IF c1.ok THEN c1 ELSE cutLast(s, "-")
      r  == hexDecode(HashLen, c.after)
  IN  IF ~c.ok THEN [status |-> "ok", digest |-> ZeroDigest]
      ELSE IF c.before # Sha256Str THEN [status |-> "ok", digest |-> ZeroDigest]
      ELSE IF r.panic THEN [status |-> "panic", digest |-> ZeroDigest]
      ELSE IF r.err THEN [status |-> "ok", digest |-> ZeroDigest]
      ELSE [status |-> "ok",
            digest |-> [Type |-> DigestTypeSHA256, Hash |-> r.dst]]

ParseDigest(s) ==
  LET c1 == cutLast(s, ":")
      c  == IF c1.ok THEN c1 ELSE cutLast(s, "-")
      r  == hexDecode(HashLen, c.after)
  IN  IF ~c.ok THEN [status |-> "ok", digest |-> ZeroDigest]
      ELSE IF c.before # Sha256Str THEN [status |-> "ok", digest |-> ZeroDigest]
      ELSE IF r.panic THEN [status |-> "panic", digest |-> ZeroDigest]
      ELSE IF r.err \/ r.n # 32 THEN [status |-> "ok", digest |-> ZeroDigest]
      ELSE [status |-> "ok",
            digest |-> [Type |-> DigestTypeSHA256, Hash |-> r.dst]]

----------------------------------------------------------------------------
(* Inputs of the name parser: parts joined by separators *)

\* The most separators an input of a single call of the parser holds.
MaxSeps == 4

SepChars == {"/", ":", "@"}

\* An absent part, a two-byte part, a part that holds "..", and the part "..".
NameParts == {<<>>, <<"a","a">>, <<"a",".",".">>, <<".",".">>}

RECURSIVE Join(_, _)
\* The string ps[1] cs[1] ps[2] ... cs[k] ps[k+1]: parts joined by separators.
Join(ps, cs) ==
  IF Len(cs) = 0 THEN ps[1]
  ELSE Join(SubSeq(ps, 1, Len(cs)), SubSeq(cs, 1, Len(cs) - 1))
         \o <<cs[Len(cs)]>> \o ps[Len(cs) + 1]

\* s is an input of at most maxSeps separators between parts of the set parts.
IsJoined(s, parts, maxSeps) ==
  \E k \in 0..maxSeps :
    \E ps \in [1..(k + 1) -> parts] :
      \E cs \in [1..k -> SepChars] : s = Join(ps, cs)

----------------------------------------------------------------------------
(* One call of the parser on one input *)

InitParse ==
  /\ IsJoined(input, NameParts, MaxSeps)
  /\ input2 = <<>>
  /\ n = ZeroName
  /\ o = ZeroName
  /\ dg = ZeroDigestResult
  /\ ret = FALSE
  /\ op = "init"

DoParseNameNoDefaults ==
  /\ op = "init"
  /\ n' = ParseNameNoDefaults(input)
  /\ op' = "ParseNameNoDefaults"
  /\ UNCHANGED <<input, input2, o, dg, ret>>

DoParseName ==
  /\ op = "init"
  /\ n' = ParseName(input)
  /\ op' = "ParseName"
  /\ UNCHANGED <<input, input2, o, dg, ret>>

NextParse == DoParseNameNoDefaults \/ DoParseName

SpecParse == InitParse /\ [][NextParse]_vars

\* The five fields of a Name.
Fields == {"host", "namespace", "model", "tag", "rawDigest"}

\* s holds the two bytes ".." somewhere.
HasDotDot(s) == \E i \in 1..(Len(s) - 1) : s[i] = "." /\ s[i + 1] = "."

\* C1: whenever ParseNameNoDefaults(s) is valid, its String() is exactly s.
C1_RoundTripString ==
  (op = "ParseNameNoDefaults" /\ IsValid(n)) => String(n) = input

\* A valid name with a host, a namespace, a model and a tag has been parsed.
C1_Witness ==
  /\ op = "ParseNameNoDefaults"
  /\ IsValid(n)
  /\ n.host # <<>>
  /\ n.tag # <<>>
  /\ String(n) = input

\* C2: every valid Name the parser or ParseName returns is parsed back, field
\* by field, from its String().
C2_RoundTripName ==
  (op \in {"ParseNameNoDefaults", "ParseName"} /\ IsValid(n))
    => ParseNameNoDefaults(String(n)) = n

\* C6 as claimed: no field of a valid parsed Name holds ".." anywhere.
C6_NoDotDotAnywhere ==
  (op = "ParseNameNoDefaults" /\ IsValid(n))
    => \A f \in Fields : ~HasDotDot(n[f])

\* C6 as amended: no field of a valid parsed Name is exactly the string "..".
C6_NoDotDotPart ==
  (op = "ParseNameNoDefaults" /\ IsValid(n))
    => \A f \in Fields : n[f] # <<".", ".">>

\* A valid name whose model holds "..", and is not "..", has been parsed.
C6_Witness ==
  /\ op = "ParseNameNoDefaults"
  /\ IsValid(n)
  /\ HasDotDot(n.model)

----------------------------------------------------------------------------
(* Two Names built by the public constructors, merged and compared *)

\* The most separators the input of the first Name holds.
MaxMergeSeps == 2

\* The inputs the second Name is parsed from.
OtherInputs ==
  { <<>>,
    <<"a","a">>,
    <<"A","a">>,
    <<"@","a","a">>,
    <<"a","a",":">>,
    <<"a","a","/","a","a">>,
    <<"/","a","a",":","a">>,
    <<"a",":","a","/","a","a","/","a","a",":","a","@","a","a">> }

\* An absent part, a one-byte part and a two-byte part.
MergeParts == {<<>>, <<"a">>, <<"a","a">>}

InitNames ==
  /\ IsJoined(input, MergeParts, MaxMergeSeps)
  /\ input2 \in OtherInputs
  /\ n = ZeroName
  /\ o = ZeroName
  /\ dg = ZeroDigestResult
  /\ ret = FALSE
  /\ op = "init"

\* n := ParseNameNoDefaults(input)
ParseN ==
  /\ op = "init"
  /\ n' = ParseNameNoDefaults(input)
  /\ op' = "ParseN"
  /\ UNCHANGED <<input, input2, o, dg, ret>>

\* n := ParseName(input)
ParseNameN ==
  /\ op = "init"
  /\ n' = ParseName(input)
  /\ op' = "ParseNameN"
  /\ UNCHANGED <<input, input2, o, dg, ret>>

\* o := ParseNameNoDefaults(input2)
ParseO ==
  /\ op \in {"ParseN", "ParseNameN"}
  /\ o' = ParseNameNoDefaults(input2)
  /\ op' = "ParseO"
  /\ UNCHANGED <<input, input2, n, dg, ret>>

\* o := ParseName(input2)
ParseNameO ==
  /\ op \in {"ParseN", "ParseNameN"}
  /\ o' = ParseName(input2)
  /\ op' = "ParseNameO"
  /\ UNCHANGED <<input, input2, n, dg, ret>>

\* o := DefaultName()
DefaultO ==
  /\ op \in {"ParseN", "ParseNameN"}
  /\ o' = DefaultName
  /\ op' = "DefaultO"
  /\ UNCHANGED <<input, input2, n, dg, ret>>

Built == {"ParseO", "ParseNameO", "DefaultO", "MergeN", "MergeO"}

\* n = n.Merge(o)
MergeN ==
  /\ op \in Built
  /\ n' = Merge(n, o)
  /\ op' = "MergeN"
  /\ UNCHANGED <<input, input2, o, dg, ret>>

\* o = o.Merge(n)
MergeO ==
  /\ op \in Built
  /\ o' = Merge(o, n)
  /\ op' = "MergeO"
  /\ UNCHANGED <<input, input2, n, dg, ret>>

\* ret := n.Equal(o)
DoEqual ==
  /\ op \in Built
  /\ ret' = Equal(n, o)
  /\ op' = "Equal"
  /\ UNCHANGED <<input, input2, n, o, dg>>

NextNames ==
  \/ ParseN
  \/ ParseNameN
  \/ ParseO
  \/ ParseNameO
  \/ DefaultO
  \/ MergeN
  \/ MergeO
  \/ DoEqual

SpecNames == InitNames /\ [][NextNames]_vars

\* Some field of nm is MissingPart.
HasMissing(nm) == \E f \in Fields : nm[f] = MissingPart

\* The cut found its separator with nothing on one side of it.
EmptySide(c) == c.ok /\ (c.before = <<>> \/ c.after = <<>>)

\* s has a dangling separator: nothing after its last "@", or an empty side at
\* the last ":" or at a "/" the parser cuts at.
Dangling(s) ==
  LET a == cutLast(s, "@")
      c == cutLast(a.before, ":")
      m == cutLast(c.before, "/")
      h == cutLast(m.before, "/")
  IN  \/ a.ok /\ a.after = <<>>
      \/ EmptySide(c)
      \/ EmptySide(m)
      \/ EmptySide(h)

\* Field by field equality after folding A-Z to a-z.
FoldEqual(a, b) == \A f \in Fields : writeLower(a[f]) = writeLower(b[f])

\* C4: n.Equal(o) is true exactly when the five fields agree case-insensitively.
C4_EqualIsFieldwise ==
  op = "Equal" => (ret <=> FoldEqual(n, o))

\* C5: an input with a dangling separator parses to a Name with a MissingPart
\* field; a Name with a MissingPart field is invalid and formats as "", and no
\* Merge removes the MissingPart field.
C5_Sentinel ==
  /\ [](/\ (op # "init" /\ Dangling(input)) => HasMissing(n)
        /\ HasMissing(n) => (~IsValid(n) /\ String(n) = <<>>)
        /\ HasMissing(o) => (~IsValid(o) /\ String(o) = <<>>))
  /\ [][/\ HasMissing(n) => HasMissing(n')
        /\ HasMissing(o) => HasMissing(o')]_vars

\* A Name parsed from an input with a dangling separator has been merged with
\* another Name, which filled a field of it.
C5_Witness ==
  /\ op = "MergeN"
  /\ Dangling(input)
  /\ HasMissing(n)
  /\ n.tag # MissingPart
  /\ n.tag # <<>>
  /\ ParseNameNoDefaults(input).tag = <<>>

\* What Merge is to return: model and rawDigest of a; host, namespace and tag
\* of a where not empty and of b otherwise.
Merged(a, b, r) ==
  /\ r.model = a.model
  /\ r.rawDigest = a.rawDigest
  /\ \A f \in {"host", "namespace", "tag"} :
       r[f] = IF a[f] # <<>> THEN a[f] ELSE b[f]

\* C9: Merge keeps model and rawDigest and fills only the empty host, namespace
\* and tag; ParseName(s) differs from ParseNameNoDefaults(s) only so.
C9_MergeFrame ==
  [][/\ op' = "MergeN" => (Merged(n, o, n') /\ o' = o)
     /\ op' = "MergeO" => (Merged(o, n, o') /\ n' = n)
     /\ op' = "ParseNameN" =>
          Merged(ParseNameNoDefaults(input), DefaultName, n')]_vars

\* A Name with no model has been merged with one that has a model and a host:
\* the host was taken, the model was not.
C9_Witness ==
  /\ op = "MergeN"
  /\ n.model = <<>>
  /\ o.model # <<>>
  /\ ParseNameNoDefaults(input).host = <<>>
  /\ n.host = o.host
  /\ n.host # <<>>

----------------------------------------------------------------------------
(* One call of IsValidShort *)

\* The longest namespace and model handed to IsValidShort.
MaxShortLen == 2

ShortChars == {"a", "Z", "7", ".", "-", "_", ":", "/"}

\* s is a string of at most maxLen bytes of chars.
IsString(s, chars, maxLen) ==
  \E k \in 0..maxLen : s \in [1..k -> chars]

InitShort ==
  /\ IsString(input, ShortChars, MaxShortLen)
  /\ IsString(input2, ShortChars, MaxShortLen)
  /\ n = ZeroName
  /\ o = ZeroName
  /\ dg = ZeroDigestResult
  /\ ret = FALSE
  /\ op = "init"

\* ret := IsValidShort(input, input2), beside n := Name{namespace: input,
\* model: input2}, as TestIsValidShort builds it.
DoIsValidShort ==
  /\ op = "init"
  /\ ret' = IsValidShort(input, input2)
  /\ n' = [ZeroName EXCEPT !.namespace = input, !.model = input2]
  /\ op' = "IsValidShort"
  /\ UNCHANGED <<input, input2, o, dg>>

NextShort == DoIsValidShort

SpecShort == InitShort /\ [][NextShort]_vars

\* C3: IsValidShort(ns, m) is IsValid() of the Name of namespace ns and model m.
C3_ShortIsValid ==
  op = "IsValidShort" => (ret <=> IsValid(n))

----------------------------------------------------------------------------
(* One call of ParseDigest *)

\* How far the hex payload of an input is from the 64 digits of a hash.
MaxSlack == 2

Rep(c, k) == [i \in 1..k |-> c]

\* Hex digits of either case, the digit 0, and a byte that is no hex digit.
PayloadChars == {"0", "a", "F", "x"}

PayloadLens == {0} \cup ((2 * HashLen - MaxSlack)..(2 * HashLen + MaxSlack))

DigestTypes == {Sha256Str, <<"s","h","a","1","3","4">>, <<>>}

DigestSeps == {<<":">>, <<"-">>, <<>>}

\* s is a type, a separator and a payload of one repeated byte and a last byte.
IsDigestInput(s) ==
  \E typ \in DigestTypes, sep \in DigestSeps, k \in PayloadLens :
    \E c1 \in PayloadChars, c2 \in PayloadChars :
      s = typ \o sep \o (IF k = 0 THEN <<>> ELSE Rep(c1, k - 1) \o <<c2>>)

InitDigest ==
  /\ IsDigestInput(input)
  /\ input2 = <<>>
  /\ n = ZeroName
  /\ o = ZeroName
  /\ dg = ZeroDigestResult
  /\ ret = FALSE
  /\ op = "init"

DoParseDigest ==
  /\ op = "init"
  /\ dg' = ParseDigest(input)
  /\ op' = "ParseDigest"
  /\ UNCHANGED <<input, input2, n, o, ret>>

NextDigest == DoParseDigest

SpecDigest == InitDigest /\ [][NextDigest]_vars

\* "sha256", a separator and 64 digits 0.
ZeroHexInputs == {Sha256Str \o <<sep>> \o Rep("0", 2 * HashLen) : sep \in {":", "-"}}

\* strings.ReplaceAll(s, ":", "-")
Normalized(s) == [i \in 1..Len(s) |-> IF s[i] = ":" THEN "-" ELSE s[i]]

C8_StringIsNormalizedInput ==
  (op = "ParseDigest" /\ dg.status = "ok" /\ DigestIsValid(dg.digest))
    => DigestString(dg.digest) = Normalized(input)

====
